---- MODULE Spec2Model ----
(***************************************************************************)
(* The node arena, the lifecycle engine and the signal/listener subsystem  *)
(* of vx (src/src/core.rs, src/src/signal.rs) as a state machine.          *)
(*                                                                         *)
(* The program is single threaded and re-entrant: every public operation   *)
(* of Globals may invoke user code (a component factory, an update hook,   *)
(* an unmount hook, a signal listener), and that user code may call any    *)
(* public operation again.  The call stack is therefore part of the state: *)
(* `stack` is the sequence of activation records, the last one running.    *)
(* User code is modelled as the most general client: a user frame may call *)
(* any public operation with any argument, or return.                      *)
(***************************************************************************)
EXTENDS Integers, Sequences, FiniteSets, TLC

\* ------------------------------------------------------------- bounds
\* The program has no limits of its own; the bounds limit the environment
\* (the driver and the user code) and are guards of the next-state relations.
\* Number of nodes the environment constructs in SpecTree.
MaxNodes == 3
\* Number of nodes the environment constructs in Spec.
SigNodes == 2
\* Number of signals the environment creates (on_theme_changed included).
MaxSignals == 2
\* Number of listeners the environment registers on one signal.
MaxListeners == 2
\* Number of operations (queries apart) user code may call inside one call
\* of the driver, in SpecTree.
MaxFuel == 2
\* The same, in Spec.
ShallowFuel == 1

\* The component types T a node or a typed reference may carry.
Types == {"A", "B"}

\* The type parameter T the program passes to Globals::new and Globals::child
\* when it constructs the node with identifier id (an input: the program
\* mounts an A at even identifiers and a B at odd ones).
FactoryType(id) == IF id % 2 = 0 THEN "A" ELSE "B"

VARIABLES
    map,                \* Globals::map: id -> node record (HashMap)
    signal_map,         \* Globals::signal_map: id -> Option<Signal>
    listener_removal,   \* Globals::listener_removal: Vec<ListenerRef>
    next_component_id,  \* Globals::next_component_id
    next_signal_id,     \* Globals::next_signal_id
    stack,              \* the call stack, innermost activation last
    panicked,           \* "" or the message of the panic that ended the run
    top,                \* history: the driver's call in progress or last made
    quiet,              \* history: no user code has called the API since `top`
    log,                \* history: hooks invoked since `top`, while quiet
    repainted,          \* history: nodes whose repaint slot was marked since `top`
    fuel                \* calls user code may still make inside `top`

gvars == <<map, signal_map, listener_removal, next_component_id, next_signal_id>>
hvars == <<top, quiet, log, repainted, fuel>>
vars == <<map, signal_map, listener_removal, next_component_id, next_signal_id,
          stack, panicked, top, quiet, log, repainted, fuel>>

\* ------------------------------------------------------------- values
EmptyFn == [x \in {} |-> 0]

\* Option::None in signal_map (the signal is taken by an emit in progress).
NoneSignal == [some |-> FALSE, listeners |-> EmptyFn, next_id |-> 0]

\* signal::Signal::new
SignalNew == [some |-> TRUE, listeners |-> EmptyFn, next_id |-> 0]

\* A node literal that names the root as the parent, whoever the parent is.
ComponentNode_root_parent(parent, T) ==
    [parent |-> 0, children |-> <<>>, component |-> FALSE,
     listeners |-> <<>>, ty |-> T]

\* The ComponentNode<T> literal of Globals::new and Globals::child.
ComponentNode(parent, T) ==
    [parent |-> parent, children |-> <<>>, component |-> FALSE,
     listeners |-> <<>>, ty |-> T]

\* Activation records.  op names the function, id its argument, pc the place
\* it resumes at; kids is the snapshot `children().to_vec()` a loop runs over
\* and next the index of the element the loop comes to next.
Frame(op, id, pc) == [op |-> op, id |-> id, pc |-> pc, kids |-> <<>>, next |-> 1]

\* Globals::update(cref, repaint, propagate)
UpdateFrame(id, rp, pg) ==
    [op |-> "update", id |-> id, pc |-> "take", kids |-> <<>>, next |-> 1,
     rp |-> rp, pg |-> pg]

\* Globals::new and Globals::child<T> while the factory runs.
FactoryFrame(op, id, T) == [op |-> op, id |-> id, pc |-> "factory", ty |-> T]

\* Globals::late_unmount with its vector v.
LateFrame(id) == [op |-> "late_unmount", id |-> id, pc |-> "remove", v |-> <<>>]

\* Globals::emit holding the signal it took out of signal_map; kids is the
\* order in which Signal::emit iterates the listeners.
EmitFrame(sref, signal, order) ==
    [op |-> "emit", id |-> sref, pc |-> "loop", kids |-> order, next |-> 1,
     held |-> signal]

\* User code running: a factory, an update hook or an unmount hook of node id.
UserFrame(role, id) == [op |-> "user", role |-> role, id |-> id]

\* User code running: the listener lid of signal sref, registered for owner.
ListenerFrame(owner, lid, sref) ==
    [op |-> "user", role |-> "listener", id |-> owner, lid |-> lid, sig |-> sref]

\* The driver, below the stack.
Driver == [op |-> "driver"]

\* The loop of a frame is over.
LoopDone(f) == f.next > Len(f.kids)
\* The element the loop of a frame comes to.
Current(f) == f.kids[f.next]
\* The frame with its loop advanced.
Advance(f) == [f EXCEPT !.next = @ + 1]

NoTop == [op |-> "", id |-> 0, rp |-> "No", pg |-> "No",
          sub |-> {}, pre |-> <<>>, post |-> <<>>, inner |-> <<>>]

\* The running activation.
Top == IF stack = <<>> THEN Driver ELSE stack[Len(stack)]
Pop == SubSeq(stack, 1, Len(stack) - 1)
ReplaceTop(f) == [stack EXCEPT ![Len(stack)] = f]

\* HashMap::insert and HashMap::remove
Insert(m, k, val) == [i \in DOMAIN m \cup {k} |-> IF i = k THEN val ELSE m[i]]
Remove(m, k) == [i \in DOMAIN m \ {k} |-> m[i]]

Range(s) == {s[i] : i \in DOMAIN s}

\* ------------------------------------------------------------- tree helpers
RECURSIVE PreorderIn(_, _), PreorderKids(_, _), PostorderIn(_, _), PostorderKids(_, _)
\* The nodes reachable from id through child lists, parent first, in
\* child-list order (a reference to a node that no longer exists leads nowhere).
PreorderIn(m, id) ==
    IF id \notin DOMAIN m THEN <<>>
    ELSE <<id>> \o PreorderKids(m, m[id].children)
PreorderKids(m, kids) ==
    IF kids = <<>> THEN <<>>
    ELSE PreorderIn(m, Head(kids)) \o PreorderKids(m, Tail(kids))

\* The same walk with each node after its descendants (reverse_unmount).
PostorderIn(m, id) ==
    IF id \notin DOMAIN m THEN <<>>
    ELSE PostorderKids(m, m[id].children) \o <<id>>
PostorderKids(m, kids) ==
    IF kids = <<>> THEN <<>>
    ELSE PostorderIn(m, Head(kids)) \o PostorderKids(m, Tail(kids))

Subtree(id) == Range(PreorderIn(map, id))

\* ------------------------------------------------------------- Init
\* The Globals struct literal of Globals::new.
Init ==
    /\ map = EmptyFn
    /\ signal_map = EmptyFn
    /\ listener_removal = <<>>
    /\ next_component_id = 0
    /\ next_signal_id = 0
    /\ stack = <<>>
    /\ panicked = ""
    /\ top = NoTop
    /\ quiet = TRUE
    /\ log = <<>>
    /\ repainted = {}
    /\ fuel = 0

\* ------------------------------------------------------------- calling
\* Who may call a public operation: the driver (empty stack) once the arena
\* is constructed, or user code on top of the stack.
CanCall ==
    /\ panicked = ""
    /\ next_component_id > 0
    /\ \/ stack = <<>>
       \/ Top.op = "user" /\ fuel > 0

\* History kept at a call: a driver call starts a new record, a call from
\* user code ends the quiet period and is noted as the record's inner call.
Enter(rec) ==
    IF stack = <<>>
    THEN /\ top' = rec
         /\ quiet' = TRUE
         /\ log' = <<>>
         /\ repainted' = {}
         /\ fuel' = MaxFuel
    ELSE /\ top' = [top EXCEPT !.inner = <<rec.op, rec.id>>]
         /\ quiet' = FALSE
         /\ log' = <<>>
         /\ repainted' = repainted
         /\ fuel' = fuel - 1

TopRec(op, id, rp, pg) ==
    [op |-> op, id |-> id, rp |-> rp, pg |-> pg,
     sub |-> Subtree(id), pre |-> PreorderIn(map, id),
     post |-> PostorderIn(map, id), inner |-> <<>>]

\* The hook log is kept only while no user code has called the API.
Logged(role, id) == IF quiet THEN Append(log, <<role, id>>) ELSE <<>>

\* A panic ends the run; the stack is kept as it was at the point of failure.
Panic(msg) ==
    /\ panicked' = msg
    /\ UNCHANGED <<map, signal_map, listener_removal, next_component_id,
                   next_signal_id, stack, top, quiet, log, repainted, fuel>>

\* ------------------------------------------------------------- construction
\* Globals::new up to the call of the root's factory.
GlobalsNew(T) ==
    /\ panicked = ""
    /\ next_component_id = 0
    /\ stack = <<>>
    /\ signal_map' = Insert(signal_map, next_signal_id, SignalNew)
    /\ next_signal_id' = next_signal_id + 1
    /\ next_component_id' = next_component_id + 1
    /\ map' = Insert(map, next_component_id,
                     ComponentNode(next_component_id, T))
    /\ stack' = <<FactoryFrame("new", next_component_id, T),
                  UserFrame("factory", next_component_id)>>
    /\ top' = [NoTop EXCEPT !.op = "new"]
    /\ quiet' = TRUE
    /\ log' = <<>>
    /\ repainted' = {}
    /\ fuel' = MaxFuel
    /\ UNCHANGED <<listener_removal, panicked>>

\* A push_child that puts the new child in front.
push_child_front(node, child) == [node EXCEPT !.children = <<child>> \o @]

\* InternalNode::push_child
push_child(node, child) == [node EXCEPT !.children = Append(@, child)]

\* A child that hands out next_component_id without incrementing it.
Child_no_increment(p, T) ==
    /\ CanCall
    /\ next_component_id' = next_component_id
    /\ IF p \notin DOMAIN map
       THEN /\ panicked' = "invalid reference"
            /\ UNCHANGED <<map, signal_map, listener_removal, next_signal_id,
                           stack, hvars>>
       ELSE /\ map' = Insert([map EXCEPT ![p] = push_child(@, next_component_id)],
                             next_component_id, ComponentNode(p, T))
            /\ stack' = stack \o
                 <<FactoryFrame("child", next_component_id, T),
                   UserFrame("factory", next_component_id)>>
            /\ Enter(TopRec("child", p, "No", "No"))
            /\ UNCHANGED <<signal_map, listener_removal, next_signal_id, panicked>>

\* Globals::child up to the call of the factory.
Child(p, T) ==
    /\ CanCall
    /\ next_component_id' = next_component_id + 1
    /\ IF p \notin DOMAIN map
       THEN /\ panicked' = "invalid reference"
            /\ UNCHANGED <<map, signal_map, listener_removal, next_signal_id,
                           stack, hvars>>
       ELSE /\ map' = Insert([map EXCEPT ![p] = push_child(@, next_component_id)],
                             next_component_id, ComponentNode(p, T))
            /\ stack' = stack \o
                 <<FactoryFrame("child", next_component_id, T),
                   UserFrame("factory", next_component_id)>>
            /\ Enter(TopRec("child", p, "No", "No"))
            /\ UNCHANGED <<signal_map, listener_removal, next_signal_id, panicked>>

\* The factory has returned: `self.node_mut(cref).component = Some(..)`,
\* in Globals::new and in Globals::child.
FactoryDone ==
    /\ panicked = ""
    /\ stack # <<>>
    /\ Top.op \in {"new", "child"}
    /\ IF Top.id \notin DOMAIN map
       THEN Panic("invalid reference")
       ELSE IF map[Top.id].ty # Top.ty
       THEN Panic("mismatching reference type")
       ELSE /\ map' = [map EXCEPT ![Top.id].component = TRUE]
            /\ stack' = Pop
            /\ UNCHANGED <<signal_map, listener_removal, next_component_id,
                           next_signal_id, panicked, hvars>>

\* User code returns to the operation that invoked it.
UserReturn ==
    /\ panicked = ""
    /\ stack # <<>>
    /\ Top.op = "user"
    /\ stack' = Pop
    /\ UNCHANGED <<gvars, panicked, hvars>>

\* ------------------------------------------------------------- take / replace
\* `self.untyped_internal_node_mut(&cref).take()`: the panic it ends in, or "".
take_panic(m, id) ==
    IF id \notin DOMAIN m THEN "invalid reference"
    ELSE IF ~m[id].component THEN "called Option::unwrap on a None value"
    ELSE ""

\* InternalNode::take followed by the call of the hook: the payload leaves the
\* node, the running operation will resume at nextpc, the hook runs.
TakeAndInvoke(role, nextpc) ==
    IF take_panic(map, Top.id) # ""
    THEN Panic(take_panic(map, Top.id))
    ELSE /\ map' = [map EXCEPT ![Top.id].component = FALSE]
         /\ stack' = Append(ReplaceTop([Top EXCEPT !.pc = nextpc]),
                            UserFrame(role, Top.id))
         /\ log' = Logged(role, Top.id)
         /\ UNCHANGED <<signal_map, listener_removal, next_component_id,
                        next_signal_id, panicked, top, quiet, repainted, fuel>>

\* A replace that loses the payload it is given.
replace_lost(node) == [node EXCEPT !.component = FALSE]

\* InternalNode::replace
replace(node) == [node EXCEPT !.component = TRUE]

\* InternalNode::repaint: `self.cmds.repaint()` marks the node's repaint slot
\* (a reclutch CommandGroup, opaque to the core); the marking is recorded.
repaint(marked, id) == marked \cup {id}

\* ------------------------------------------------------------- update
\* A call of Globals::update.
Update(id, rp, pg) ==
    /\ CanCall
    /\ stack' = Append(stack, UpdateFrame(id, rp, pg))
    /\ Enter(TopRec("update", id, rp, pg))
    /\ UNCHANGED <<gvars, panicked>>

\* Globals::update: take the payload and invoke the update hook.
update_take ==
    /\ panicked = ""
    /\ Top.op = "update" /\ Top.pc = "take"
    /\ TakeAndInvoke("update", "replace")

\* Globals::update after the hook: replace, repaint, snapshot the children.
update_replace ==
    /\ panicked = ""
    /\ Top.op = "update" /\ Top.pc = "replace"
    /\ IF Top.id \notin DOMAIN map
       THEN Panic("invalid reference")
       ELSE /\ map' = [map EXCEPT ![Top.id] = replace(@)]
            /\ repainted' = IF Top.rp = "Yes"
                            THEN repaint(repainted, Top.id) ELSE repainted
            /\ stack' = ReplaceTop([Top EXCEPT
                           !.pc = "loop",
                           !.kids = IF Top.pg = "Yes"
                                    THEN map[Top.id].children ELSE <<>>])
            /\ UNCHANGED <<signal_map, listener_removal, next_component_id,
                           next_signal_id, panicked, top, quiet, log, fuel>>

\* Globals::update: the loop over the snapshot of the children.
update_loop ==
    /\ panicked = ""
    /\ Top.op = "update" /\ Top.pc = "loop"
    /\ stack' = IF LoopDone(Top)
                THEN Pop
                ELSE Append(ReplaceTop(Advance(Top)),
                            UpdateFrame(Current(Top), Top.rp, Top.pg))
    /\ UNCHANGED <<gvars, panicked, hvars>>

\* ------------------------------------------------------------- listeners
\* signal::Signal::remove_listener (through InternalSignal::detach)
remove_listener(signal, lid) ==
    [signal EXCEPT !.listeners = [l \in DOMAIN @ \ {lid} |-> @[l]]]

\* ListenerPair::detach on the pair <<signal_map, listener_removal>>.
detach(pair, sl) ==
    IF sl[1][pair.signal].some
    THEN <<[sl[1] EXCEPT ![pair.signal] = remove_listener(@, pair.listener)], sl[2]>>
    ELSE <<sl[1], Append(sl[2], pair.listener)>>

RECURSIVE detach_listeners(_, _)
\* InternalNode::detach_listeners: detach every pair, in order.
detach_listeners(pairs, sl) ==
    IF pairs = <<>> THEN sl
    ELSE detach_listeners(Tail(pairs), detach(Head(pairs), sl))

\* `if let Some(mut node) = self.map.remove(&id) { node.detach_listeners(self) }`
RemoveAndDetach(id) ==
    IF id \in DOMAIN map
    THEN LET sl == detach_listeners(map[id].listeners,
                                    <<signal_map, listener_removal>>)
         IN /\ map' = Remove(map, id)
            /\ signal_map' = sl[1]
            /\ listener_removal' = sl[2]
    ELSE UNCHANGED <<map, signal_map, listener_removal>>

\* ------------------------------------------------------------- unmount
\* A call of Globals::unmount: unmount_single, then unmount_children.
Unmount(id) ==
    /\ CanCall
    /\ stack' = Append(stack, Frame("unmount", id, "take"))
    /\ Enter(TopRec("unmount", id, "No", "No"))
    /\ UNCHANGED <<gvars, panicked>>

\* A reverse_unmount that starts with unmount_single, as unmount does.
ReverseUnmount_single_first(id) ==
    /\ CanCall
    /\ stack' = Append(stack, Frame("reverse_unmount", id, "take"))
    /\ Enter(TopRec("reverse_unmount", id, "No", "No"))
    /\ UNCHANGED <<gvars, panicked>>

\* A call of Globals::reverse_unmount: unmount_children, then unmount_single.
ReverseUnmount(id) ==
    /\ CanCall
    /\ stack' = Append(stack, Frame("reverse_unmount", id, "children"))
    /\ Enter(TopRec("reverse_unmount", id, "No", "No"))
    /\ UNCHANGED <<gvars, panicked>>

\* Globals::unmount_single: take the payload and invoke the unmount hook.
unmount_single_take ==
    /\ panicked = ""
    /\ Top.op \in {"unmount", "reverse_unmount"} /\ Top.pc = "take"
    /\ TakeAndInvoke("unmount", "replace")

\* Globals::unmount_single after the hook: replace, remove, detach listeners.
\* unmount goes on to unmount_children, reverse_unmount returns.
unmount_single_replace ==
    /\ panicked = ""
    /\ Top.op \in {"unmount", "reverse_unmount"} /\ Top.pc = "replace"
    /\ IF Top.id \notin DOMAIN map
       THEN Panic("invalid reference")
       ELSE /\ RemoveAndDetach(Top.id)
            /\ stack' = IF Top.op = "unmount"
                        THEN ReplaceTop([Top EXCEPT !.pc = "children"])
                        ELSE Pop
            /\ UNCHANGED <<next_component_id, next_signal_id, panicked, hvars>>

\* Where an unmount goes when unmount_children is over.
AfterChildren ==
    IF Top.op = "unmount" THEN Pop ELSE ReplaceTop([Top EXCEPT !.pc = "take"])

\* Globals::unmount_children: the early return and the snapshot.
unmount_children_begin ==
    /\ panicked = ""
    /\ Top.op \in {"unmount", "reverse_unmount"} /\ Top.pc = "children"
    /\ stack' = IF Top.id \notin DOMAIN map
                THEN AfterChildren
                ELSE ReplaceTop([Top EXCEPT !.pc = "loop",
                                            !.kids = map[Top.id].children])
    /\ UNCHANGED <<gvars, panicked, hvars>>

\* Globals::unmount_children: the loop over the snapshot.
unmount_children_loop ==
    /\ panicked = ""
    /\ Top.op \in {"unmount", "reverse_unmount"} /\ Top.pc = "loop"
    /\ stack' =
         IF LoopDone(Top) THEN AfterChildren
         ELSE IF Current(Top) \in DOMAIN map
         THEN Append(ReplaceTop(Advance(Top)),
                     IF Top.op = "reverse_unmount"
                     THEN Frame("reverse_unmount", Current(Top), "children")
                     ELSE Frame("unmount", Current(Top), "take"))
         ELSE ReplaceTop(Advance(Top))
    /\ UNCHANGED <<gvars, panicked, hvars>>

\* ------------------------------------------------------------- late_unmount
\* A call of Globals::late_unmount up to the call of late_unmount_impl.
LateUnmount(id) ==
    /\ CanCall
    /\ stack' = stack \o <<LateFrame(id), Frame("late_impl", id, "take")>>
    /\ Enter(TopRec("late_unmount", id, "No", "No"))
    /\ UNCHANGED <<gvars, panicked>>

\* The activation of late_unmount that owns the vector `v` passed down.
VOwner == CHOOSE i \in DOMAIN stack :
            /\ stack[i].op = "late_unmount"
            /\ \A j \in DOMAIN stack : stack[j].op = "late_unmount" => j <= i

\* Globals::late_unmount_impl: record the id, take, invoke the unmount hook.
late_impl_take ==
    /\ panicked = ""
    /\ Top.op = "late_impl" /\ Top.pc = "take"
    /\ IF take_panic(map, Top.id) # ""
       THEN Panic(take_panic(map, Top.id))
       ELSE /\ map' = [map EXCEPT ![Top.id].component = FALSE]
            /\ stack' = Append([stack EXCEPT
                                  ![VOwner].v = Append(@, Top.id),
                                  ![Len(stack)].pc = "replace"],
                               UserFrame("unmount", Top.id))
            /\ log' = Logged("unmount", Top.id)
            /\ UNCHANGED <<signal_map, listener_removal, next_component_id,
                           next_signal_id, panicked, top, quiet, repainted, fuel>>

\* Globals::late_unmount_impl after the hook: replace, snapshot the children.
late_impl_replace ==
    /\ panicked = ""
    /\ Top.op = "late_impl" /\ Top.pc = "replace"
    /\ IF Top.id \notin DOMAIN map
       THEN Panic("invalid reference")
       ELSE /\ map' = [map EXCEPT ![Top.id] = replace(@)]
            /\ stack' = ReplaceTop([Top EXCEPT !.pc = "loop",
                                               !.kids = map[Top.id].children])
            /\ UNCHANGED <<signal_map, listener_removal, next_component_id,
                           next_signal_id, panicked, hvars>>

\* Globals::late_unmount_impl: the loop over the snapshot of the children.
late_impl_loop ==
    /\ panicked = ""
    /\ Top.op = "late_impl" /\ Top.pc = "loop"
    /\ stack' = IF LoopDone(Top)
                THEN Pop
                ELSE Append(ReplaceTop(Advance(Top)),
                            Frame("late_impl", Current(Top), "take"))
    /\ UNCHANGED <<gvars, panicked, hvars>>

\* Globals::late_unmount, second pass: remove the recorded ids in order.
late_unmount_remove ==
    /\ panicked = ""
    /\ Top.op = "late_unmount" /\ Top.pc = "remove"
    /\ IF Top.v = <<>>
       THEN /\ stack' = Pop
            /\ UNCHANGED <<map, signal_map, listener_removal>>
       ELSE /\ RemoveAndDetach(Head(Top.v))
            /\ stack' = ReplaceTop([Top EXCEPT !.v = Tail(@)])
    /\ UNCHANGED <<next_component_id, next_signal_id, panicked, hvars>>

\* ------------------------------------------------------------- signals
\* A caller of an operation that invokes no user code and costs no fuel.
CanQuery ==
    /\ panicked = ""
    /\ next_component_id > 0
    /\ stack = <<>> \/ Top.op = "user"

\* A call of Globals::signal.
Signal ==
    /\ CanCall
    /\ signal_map' = Insert(signal_map, next_signal_id, SignalNew)
    /\ next_signal_id' = next_signal_id + 1
    /\ Enter([NoTop EXCEPT !.op = "signal", !.id = next_signal_id])
    /\ UNCHANGED <<map, listener_removal, next_component_id, stack, panicked>>

\* signal::Signal::listen_rc: the listener is stored under a fresh handle.  A
\* callback is identified by the node its closure was registered for.
listen_rc(signal, owner) ==
    [signal EXCEPT !.listeners = Insert(@, signal.next_id, owner),
                   !.next_id = @ + 1]

\* Globals::node_mut (and node): the panic it ends in, or "".
node_panic(m, id, T) ==
    IF id \notin DOMAIN m THEN "invalid reference"
    ELSE IF m[id].ty # T THEN "mismatching reference type"
    ELSE ""

\* A call of Globals::listen with the signal sref and the owner cref = <<id, T>>.
Listen(sref, id, T) ==
    /\ CanCall
    /\ IF ~signal_map[sref].some
       THEN Panic("signal already borrowed")
       ELSE /\ signal_map' = [signal_map EXCEPT ![sref] = listen_rc(@, id)]
            /\ IF node_panic(map, id, T) # ""
               THEN /\ panicked' = node_panic(map, id, T)
                    /\ UNCHANGED <<map, hvars>>
               ELSE /\ map' = [map EXCEPT ![id].listeners =
                                 Append(@, [listener |-> signal_map[sref].next_id,
                                            signal |-> sref])]
                    /\ Enter([NoTop EXCEPT !.op = "listen", !.id = id])
                    /\ UNCHANGED panicked
            /\ UNCHANGED <<listener_removal, next_component_id, next_signal_id,
                           stack>>

\* The orders in which a HashMap with the keys S may be iterated.
Orders(S) == {o \in [1 .. Cardinality(S) -> S] :
                \A i, j \in 1 .. Cardinality(S) : o[i] = o[j] => i = j}

\* An emit that does not look whether the signal is taken: it iterates over
\* whatever the slot holds.
Emit_unguarded(sref) ==
    /\ CanCall
    /\ signal_map' = [signal_map EXCEPT ![sref] = NoneSignal]
    /\ \E o \in Orders(DOMAIN signal_map[sref].listeners) :
         stack' = Append(stack, EmitFrame(sref, signal_map[sref], o))
    /\ Enter([NoTop EXCEPT !.op = "emit", !.id = sref])
    /\ UNCHANGED <<map, listener_removal, next_component_id, next_signal_id,
                   panicked>>

\* A call of Globals::emit: nothing happens when the signal is taken;
\* otherwise the signal is taken out of signal_map and Signal::emit starts its
\* iteration over `listeners.values_mut()`, in the order the HashMap yields.
Emit(sref) ==
    /\ CanCall
    /\ IF ~signal_map[sref].some
       THEN UNCHANGED <<signal_map, stack>>
       ELSE /\ signal_map' = [signal_map EXCEPT ![sref] = NoneSignal]
            /\ \E o \in Orders(DOMAIN signal_map[sref].listeners) :
                 stack' = Append(stack, EmitFrame(sref, signal_map[sref], o))
    /\ Enter([NoTop EXCEPT !.op = "emit", !.id = sref])
    /\ UNCHANGED <<map, listener_removal, next_component_id, next_signal_id,
                   panicked>>

\* Signal::emit: the next listener is invoked.
emit_invoke ==
    /\ panicked = ""
    /\ Top.op = "emit" /\ ~LoopDone(Top)
    /\ stack' = Append(ReplaceTop(Advance(Top)),
                       ListenerFrame(Top.held.listeners[Current(Top)],
                                     Current(Top), Top.id))
    /\ UNCHANGED <<gvars, panicked, hvars>>

RECURSIVE detach_all(_, _)
\* `for listener in mem::take(&mut self.listener_removal) { signal.detach(listener) }`
detach_all(signal, lids) ==
    IF lids = <<>> THEN signal
    ELSE detach_all(remove_listener(signal, Head(lids)), Tail(lids))

\* An emit that puts the signal back and leaves the queued removals queued.
emit_finish_keeps_queue ==
    /\ panicked = ""
    /\ Top.op = "emit" /\ LoopDone(Top)
    /\ signal_map' = [signal_map EXCEPT ![Top.id] = Top.held]
    /\ stack' = Pop
    /\ UNCHANGED <<map, listener_removal, next_component_id, next_signal_id,
                   panicked, hvars>>

\* Globals::emit after Signal::emit: the queued removals are applied to this
\* signal and the signal is put back.
emit_finish ==
    /\ panicked = ""
    /\ Top.op = "emit" /\ LoopDone(Top)
    /\ signal_map' = [signal_map EXCEPT ![Top.id] =
                        detach_all(Top.held, listener_removal)]
    /\ listener_removal' = <<>>
    /\ stack' = Pop
    /\ UNCHANGED <<map, next_component_id, next_signal_id, panicked, hvars>>

\* ------------------------------------------------------------- payload access
\* A try_get that does not look whether the payload is taken.
try_get_unchecked(m, id, T) ==
    IF id \notin DOMAIN m THEN "None"
    ELSE IF m[id].ty # T THEN "None"
    ELSE "Some"

\* A get that does not look whether the payload is taken.
get_panic_unchecked(m, id, T) == node_panic(m, id, T)

\* Globals::get and Globals::get_mut: the panic they end in, or "".
get_panic(m, id, T) ==
    IF node_panic(m, id, T) # "" THEN node_panic(m, id, T)
    ELSE IF ~m[id].component
    THEN "a reference to the component is already being used"
    ELSE ""

\* Globals::try_get and Globals::try_get_mut: "Some" or "None".
try_get(m, id, T) ==
    IF id \notin DOMAIN m THEN "None"
    ELSE IF m[id].ty # T THEN "None"
    ELSE IF ~m[id].component THEN "None"
    ELSE "Some"

\* A call of Globals::get or Globals::get_mut.
Get(id, T) ==
    /\ CanQuery
    /\ IF get_panic(map, id, T) # ""
       THEN Panic(get_panic(map, id, T))
       ELSE UNCHANGED vars

\* A call of Globals::try_get or Globals::try_get_mut: it changes nothing.
TryGet(id, T) ==
    /\ CanQuery
    /\ try_get(map, id, T) \in {"Some", "None"}
    /\ UNCHANGED vars

\* ------------------------------------------------------------- teardown
\* The activation of Drop::drop: `keys`, collected in the order the HashMap
\* yields them, and the position of the loop.
DropFrame(keys) ==
    [op |-> "drop", id |-> 0, pc |-> "loop", kids |-> keys, next |-> 1]

\* The Globals value is dropped by its owner: Drop::drop collects the keys.
Drop ==
    /\ panicked = ""
    /\ next_component_id > 0
    /\ stack = <<>>
    /\ \E keys \in Orders(DOMAIN map) : stack' = <<DropFrame(keys)>>
    /\ Enter([NoTop EXCEPT !.op = "drop", !.sub = DOMAIN map])
    /\ UNCHANGED <<gvars, panicked>>

\* A loop of Drop::drop with the test of contains_key inverted.
drop_loop_inverted ==
    /\ panicked = ""
    /\ Top.op = "drop" /\ Top.pc = "loop"
    /\ stack' =
         IF LoopDone(Top) THEN ReplaceTop([Top EXCEPT !.pc = "dropped"])
         ELSE IF Current(Top) \notin DOMAIN map
         THEN Append(ReplaceTop(Advance(Top)),
                     Frame("unmount", Current(Top), "take"))
         ELSE ReplaceTop(Advance(Top))
    /\ UNCHANGED <<gvars, panicked, hvars>>

\* Drop::drop: the loop over the keys; a key still in the map is unmounted.
\* When the loop is over the value is gone and nothing can be called on it.
drop_loop ==
    /\ panicked = ""
    /\ Top.op = "drop" /\ Top.pc = "loop"
    /\ stack' =
         IF LoopDone(Top) THEN ReplaceTop([Top EXCEPT !.pc = "dropped"])
         ELSE IF Current(Top) \in DOMAIN map
         THEN Append(ReplaceTop(Advance(Top)),
                     Frame("unmount", Current(Top), "take"))
         ELSE ReplaceTop(Advance(Top))
    /\ UNCHANGED <<gvars, panicked, hvars>>

\* Globals::is_valid
is_valid(m, id) == id \in DOMAIN m

\* InternalNode::is_taken
is_taken(node) == ~node.component

\* Globals::is_available
is_available(m, id) == IF id \in DOMAIN m THEN ~is_taken(m[id]) ELSE FALSE

\* `x.type_id()` in Globals::is_of_type: x is a `&Box<dyn InternalNode>`, and
\* the method found for it is Any::type_id of the Box, whatever the node holds.
BoxTypeId(node) == "Box<dyn InternalNode>"

\* `TypeId::of::<T>()`
TypeIdOf(T) == T

\* Globals::is_of_type
is_of_type(m, id, T) ==
    IF id \in DOMAIN m THEN BoxTypeId(m[id]) = TypeIdOf(T) ELSE FALSE

\* A call of is_valid, is_available or is_of_type: it changes nothing.
Inspect(id, T) ==
    /\ CanQuery
    /\ {is_valid(map, id), is_available(map, id), is_of_type(map, id, T)}
          \subseteq BOOLEAN
    /\ UNCHANGED vars

\* ------------------------------------------------------------- environment
NodeIds == 0 .. MaxNodes - 1
SignalIds == 0 .. MaxSignals - 1
Flags == {"Yes", "No"}

\* The references the environment holds: the nodes and signals created so far.
IsRef(id) == id < next_component_id
IsSignalRef(sref) == sref < next_signal_id

\* User code has made fewer than ShallowFuel calls inside the driver's call.
Shallow == stack = <<>> \/ MaxFuel - fuel < ShallowFuel

\* The signal may take one more listener (or is taken, and listen fails).
Room(sref) == signal_map[sref].some => signal_map[sref].next_id < MaxListeners

\* Every operation, the environment bounded by SigNodes and ShallowFuel.
Next ==
    \/ GlobalsNew(FactoryType(next_component_id))
    \/ \E p \in NodeIds :
         /\ IsRef(p) /\ Shallow /\ next_component_id < SigNodes
         /\ Child(p, FactoryType(next_component_id))
    \/ FactoryDone
    \/ UserReturn
    \/ \E id \in NodeIds, rp \in Flags, pg \in Flags :
         IsRef(id) /\ Shallow /\ Update(id, rp, pg)
    \/ update_take
    \/ update_replace
    \/ update_loop
    \/ \E id \in NodeIds : IsRef(id) /\ Shallow /\ Unmount(id)
    \/ \E id \in NodeIds : IsRef(id) /\ Shallow /\ ReverseUnmount(id)
    \/ unmount_single_take
    \/ unmount_single_replace
    \/ unmount_children_begin
    \/ unmount_children_loop
    \/ \E id \in NodeIds : IsRef(id) /\ Shallow /\ LateUnmount(id)
    \/ late_impl_take
    \/ late_impl_replace
    \/ late_impl_loop
    \/ late_unmount_remove
    \/ Shallow /\ next_signal_id < MaxSignals /\ Signal
    \/ \E sref \in SignalIds, id \in NodeIds, T \in Types :
         /\ IsSignalRef(sref) /\ IsRef(id) /\ Shallow /\ Room(sref)
         /\ Listen(sref, id, T)
    \/ \E sref \in SignalIds : IsSignalRef(sref) /\ Shallow /\ Emit(sref)
    \/ emit_invoke
    \/ emit_finish
    \/ \E id \in NodeIds, T \in Types : IsRef(id) /\ Get(id, T)
    \/ \E id \in NodeIds, T \in Types : IsRef(id) /\ TryGet(id, T)
    \/ \E id \in NodeIds, T \in Types : IsRef(id) /\ Inspect(id, T)
    \/ Drop
    \/ drop_loop

Spec == Init /\ [][Next]_vars

\* The tree operations alone (no signal is created, listened to or emitted),
\* the environment bounded by MaxNodes and MaxFuel.
NextTree ==
    \/ GlobalsNew(FactoryType(next_component_id))
    \/ \E p \in NodeIds :
         /\ IsRef(p) /\ next_component_id < MaxNodes
         /\ Child(p, FactoryType(next_component_id))
    \/ FactoryDone
    \/ UserReturn
    \/ \E id \in NodeIds, rp \in Flags, pg \in Flags :
         IsRef(id) /\ Update(id, rp, pg)
    \/ update_take
    \/ update_replace
    \/ update_loop
    \/ \E id \in NodeIds : IsRef(id) /\ Unmount(id)
    \/ \E id \in NodeIds : IsRef(id) /\ ReverseUnmount(id)
    \/ unmount_single_take
    \/ unmount_single_replace
    \/ unmount_children_begin
    \/ unmount_children_loop
    \/ \E id \in NodeIds : IsRef(id) /\ LateUnmount(id)
    \/ late_impl_take
    \/ late_impl_replace
    \/ late_impl_loop
    \/ late_unmount_remove
    \/ \E id \in NodeIds, T \in Types : IsRef(id) /\ Get(id, T)
    \/ \E id \in NodeIds, T \in Types : IsRef(id) /\ TryGet(id, T)
    \/ \E id \in NodeIds, T \in Types : IsRef(id) /\ Inspect(id, T)
    \/ Drop
    \/ drop_loop

SpecTree == Init /\ [][NextTree]_vars

\* The signal operations with unmount, user code making up to MaxFuel calls
\* inside one call of the driver (nodes and signals are created by the
\* driver; listen is called with the owner's own type).
NextEmit ==
    \/ GlobalsNew(FactoryType(next_component_id))
    \/ \E p \in NodeIds :
         /\ IsRef(p) /\ stack = <<>> /\ next_component_id < SigNodes
         /\ Child(p, FactoryType(next_component_id))
    \/ FactoryDone
    \/ UserReturn
    \/ \E id \in NodeIds : IsRef(id) /\ Unmount(id)
    \/ unmount_single_take
    \/ unmount_single_replace
    \/ unmount_children_begin
    \/ stack = <<>> /\ next_signal_id < MaxSignals /\ Signal
    \/ \E sref \in SignalIds, id \in NodeIds :
         /\ IsSignalRef(sref) /\ IsRef(id) /\ Room(sref)
         /\ Listen(sref, id, FactoryType(id))
    \/ \E sref \in SignalIds : IsSignalRef(sref) /\ Emit(sref)
    \/ emit_invoke
    \/ emit_finish

SpecEmit == Init /\ [][NextEmit]_vars

\* ------------------------------------------------------------- claims
\* The driver's last call has returned.
Idle == stack = <<>> /\ panicked = ""

\* The unmount hooks of the nodes of seq, in that order, as the log records them.
Hooks(role, seq) == [i \in 1 .. Len(seq) |-> <<role, seq[i]>>]

\* The activation that invoked the user code at position i of the stack.
Invoker(i) == IF i > 1 THEN stack[i - 1] ELSE Driver

\* C1: after unmount(N) has returned, N and every node that was reachable
\* from N through child lists when it was called are absent from the arena
\* (stated for hooks that call nothing).
C1_UnmountRemovesSubtree ==
    (Idle /\ top.op = "unmount" /\ quiet) =>
        \A n \in top.sub : n \notin DOMAIN map

\* C2: at a public API boundary every reference in the child list of a live
\* node refers to a node that exists in the arena.
C2_NoDanglingChild ==
    Idle => \A n \in DOMAIN map :
              \A c \in Range(map[n].children) : c \in DOMAIN map

\* A listener has just been invoked: the step pushed its frame.
ListenerInvoked ==
    /\ Len(stack') = Len(stack) + 1
    /\ stack'[Len(stack')].op = "user"
    /\ stack'[Len(stack')].role = "listener"

\* C3: no emit invokes a managed listener whose owner has been removed from
\* the arena (a listener is registered for a live owner only, so an owner that
\* is not in the arena has been removed by one of the unmount variants).
C3_NoListenerAfterOwnerRemoved ==
    [][ListenerInvoked => stack'[Len(stack')].id \in DOMAIN map']_vars

\* The activations of update hooks and unmount hooks of node id on the stack:
\* each holds the payload that was taken out of the node.
Holders(id) ==
    {i \in DOMAIN stack : /\ stack[i].op = "user"
                          /\ stack[i].role \in {"update", "unmount"}
                          /\ stack[i].id = id}

\* C4: while an update hook or an unmount hook of a node is on the call stack,
\* at any depth, get/get_mut on the node panic, try_get/try_get_mut return
\* None, a nested update or unmount of the node panics at its take, and no
\* second hook of the node is on the stack.
C4_TakenPayloadExclusive ==
    \A id \in NodeIds :
        Holders(id) # {} =>
            /\ Cardinality(Holders(id)) = 1
            /\ take_panic(map, id) # ""
            /\ \A T \in Types : /\ get_panic(map, id, T) # ""
                                /\ try_get(map, id, T) = "None"

\* C4's case: a listener, invoked by an emit issued inside the update hook of
\* its node, called get on that node and the call panicked.
C4_Witness ==
    /\ panicked = "a reference to the component is already being used"
    /\ Len(stack) >= 4
    /\ Top.op = "user" /\ Top.role = "listener"
    /\ stack[Len(stack) - 1].op = "emit"
    /\ stack[Len(stack) - 2].op = "user"
    /\ stack[Len(stack) - 2].role = "update"
    /\ map[stack[Len(stack) - 2].id].ty = "A"
    /\ get_panic(map, stack[Len(stack) - 2].id, "A") = panicked

\* C5: unmount(N) invokes the unmount hook of N and of every descendant of
\* N, each ancestor before its descendants (stated for hooks that call
\* nothing: when the call has returned, the hooks that ran are those of the
\* subtree N had at the call, in pre-order).
C5_UnmountHooksPreorder ==
    (Idle /\ top.op = "unmount" /\ quiet) =>
        log = Hooks("unmount", top.pre)

\* An unmount hook has just been invoked by the operation op: the step
\* pushed the hook's frame on top of op's frame.
UnmountHookInvokedBy(op) ==
    /\ Len(stack') = Len(stack) + 1
    /\ stack'[Len(stack')].op = "user"
    /\ stack'[Len(stack')].role = "unmount"
    /\ stack'[Len(stack)].op = op

C7_LateHooksSeeFamily ==
    (/\ quiet /\ top.op = "late_unmount"
     /\ Top.op = "user" /\ Top.role = "unmount"
     /\ Invoker(Len(stack)).op = "late_impl") =>
        /\ \A c \in Range(map[Top.id].children) : c \in DOMAIN map
        /\ Top.id # top.id => map[Top.id].parent \in DOMAIN map

\* C8: update(N, Repaint::Yes, Propagate::Yes) on a live node N completes,
\* and with hooks that call nothing it has invoked the update hook of N and
\* of each descendant exactly once, in depth-first pre-order.  A failure is
\* counted when it is raised by update itself (its frame is on top).
C8_UpdatePropagatesPreorder ==
    (quiet /\ top.op = "update" /\ top.rp = "Yes" /\ top.pg = "Yes"
           /\ top.sub # {}) =>
        /\ (stack # <<>> /\ Top.op = "update") => panicked = ""
        /\ Idle => log = Hooks("update", top.pre)

\* A sequence of node ids in the order the ids were allocated.
Ascending(seq) == \A i, j \in DOMAIN seq : i < j => seq[i] < seq[j]

\* C9: every step leaves the child list of a node as it was or appends the
\* id allocated by the child call making the step, so each child list holds
\* its entries in the order of the child(parent) calls (ids are allocated
\* in call order).
C9_ChildrenInCallOrder ==
    /\ [][\A n \in DOMAIN map \cap DOMAIN map' :
            \/ map'[n].children = map[n].children
            \/ /\ map'[n].children = Append(map[n].children, next_component_id)
               /\ next_component_id' = next_component_id + 1]_vars
    /\ [](\A n \in DOMAIN map : Ascending(map[n].children))

\* The root's factory called child(root), whose factory called child(root)
\* again: both factories are still running and the root lists 1 before 2.
C9_Witness ==
    /\ panicked = ""
    /\ 0 \in DOMAIN map /\ map[0].children = <<1, 2>>
    /\ \E i, j \in DOMAIN stack :
         /\ i < j
         /\ stack[i].op = "child" /\ stack[i].id = 1
         /\ stack[j].op = "child" /\ stack[j].id = 2

\* C10: an emission invokes every listener registered on the signal exactly
\* once, in the order of registration (handles are allocated in that order).
C10_EmitInRegistrationOrder ==
    \A i \in DOMAIN stack : stack[i].op = "emit" =>
        /\ Range(stack[i].kids) = DOMAIN stack[i].held.listeners
        /\ Len(stack[i].kids) = Cardinality(DOMAIN stack[i].held.listeners)
        /\ Ascending(stack[i].kids)

\* C11: an emission of a signal runs, after each listener's callback, the
\* update hook of the listener's owner (stated for callbacks and hooks that
\* call nothing: when emit has returned, every listener registered on the
\* signal has an update of its owner in the hook log).
C11_ListenerTriggersUpdate ==
    (Idle /\ quiet /\ top.op = "emit" /\ signal_map[top.id].some) =>
        \A lid \in DOMAIN signal_map[top.id].listeners :
            \E i \in DOMAIN log :
                log[i] = <<"update", signal_map[top.id].listeners[lid]>>

\* C12: try_get/try_get_mut answer None exactly when the reference is
\* invalid, or the node holds another type, or the payload is taken, and
\* Some otherwise; get/get_mut panic exactly where try_get answers None.
C12_TryGetNoneIffGetFails ==
    \A id \in NodeIds, T \in Types :
        /\ try_get(map, id, T) \in {"Some", "None"}
        /\ try_get(map, id, T) = "None" <=>
              \/ ~is_valid(map, id)
              \/ is_valid(map, id) /\ map[id].ty # T
              \/ is_valid(map, id) /\ ~is_available(map, id)
        /\ get_panic(map, id, T) # "" <=> try_get(map, id, T) = "None"

\* Inside the update hook of node 0: node 0 is taken, node 1 was removed and
\* node 2 is there, so each case of try_get happens for a reference in use.
C12_Witness ==
    /\ panicked = ""
    /\ Top.op = "user" /\ Top.role = "update" /\ Top.id = 0
    /\ try_get(map, 0, FactoryType(0)) = "None"
    /\ get_panic(map, 0, FactoryType(0)) =
          "a reference to the component is already being used"
    /\ try_get(map, 1, FactoryType(1)) = "None"
    /\ get_panic(map, 1, FactoryType(1)) = "invalid reference"
    /\ try_get(map, 2, FactoryType(2)) = "Some"
    /\ try_get(map, 2, FactoryType(1)) = "None"
    /\ get_panic(map, 2, FactoryType(1)) = "mismatching reference type"

\* C13: is_of_type<T>(ref) is true exactly when the node of ref is in the
\* arena and holds a payload of type T.
C13_IsOfTypeIffLiveAndTyped ==
    \A id \in NodeIds, T \in Types :
        is_of_type(map, id, T) <=> (is_valid(map, id) /\ map[id].ty = T)

\* The teardown is over: Drop::drop has returned.
Dropped == panicked = "" /\ Top.op = "drop" /\ Top.pc = "dropped"

C15_IdsNeverReused ==
    /\ [](DOMAIN map \subseteq 0 .. next_component_id - 1)
    /\ [][/\ next_component_id' >= next_component_id
          /\ \A id \in DOMAIN map' \ DOMAIN map :
                id = next_component_id /\ next_component_id' = id + 1
          /\ \A id \in 0 .. next_component_id - 1 :
                id \notin DOMAIN map => id \notin DOMAIN map']_vars

\* Node 1 was removed and node 2 was created afterwards by child(0).
C15_Witness ==
    /\ Idle
    /\ top.op = "child" /\ top.id = 0
    /\ DOMAIN map = {0, 2}
    /\ map[0].children = <<1, 2>>

\* C16: a step on which an operation fails commits no structural change:
\* the node table (child lists and teardown records included), the signals'
\* listener sets and the queued removals are what they were before it.
C16_FailureCommitsNothing ==
    [][(panicked = "" /\ panicked' # "") =>
          /\ map' = map
          /\ signal_map' = signal_map
          /\ listener_removal' = listener_removal]_vars

C18_RemovalsAppliedAfterEmission ==
    /\ \A i \in DOMAIN stack :
          stack[i].op = "emit" => signal_map[stack[i].id] = NoneSignal
    /\ (Idle /\ top.op = "emit") =>
          /\ listener_removal = <<>>
          /\ \A lid \in DOMAIN signal_map[top.id].listeners :
                signal_map[top.id].listeners[lid] \in DOMAIN map

\* The frames of user code that run while the payload of their node is
\* absent: a factory, an update hook, an unmount hook.
PayloadAbsent(i) ==
    stack[i].op = "user" /\ stack[i].role \in {"factory", "update", "unmount"}

\* While the factory or a hook of a node is on the stack the node is valid
\* and not available, node/node_mut find it (so child(self) and the owner
\* check of listen(signal, self, ..) pass), and during the factory of a
\* child the child is in the child list of its parent.
RecordUsable ==
    \A i \in DOMAIN stack : PayloadAbsent(i) =>
        /\ is_valid(map, stack[i].id)
        /\ ~is_available(map, stack[i].id)
        /\ node_panic(map, stack[i].id, map[stack[i].id].ty) = ""
        /\ (/\ stack[i].role = "factory"
            /\ map[stack[i].id].parent # stack[i].id
            /\ is_valid(map, map[stack[i].id].parent)) =>
               stack[i].id \in Range(map[map[stack[i].id].parent].children)

\* child or new returns: the factory's result has become the payload.
FactoryReturns ==
    panicked' = "" /\ Top.op \in {"new", "child"} /\ stack' = Pop

UpdateKeepsTree ==
    [][(Top.op = "update" /\ panicked = "") =>
          /\ DOMAIN map' = DOMAIN map
          /\ \A n \in DOMAIN map :
                /\ map'[n].parent = map[n].parent
                /\ map'[n].children = map[n].children]_vars

\* The update called by the driver is over: it has returned, or it has
\* failed in one of its own steps.
UpdateOver ==
    \/ Idle
    \/ panicked # "" /\ stack # <<>> /\ Top.op = "update"

\* C20: with hooks that call nothing, update(N, repaint, Propagate::No) has
\* invoked the hook of N only, Repaint::No has marked no repaint slot,
\* Repaint::Yes with Propagate::Yes has marked the slot of N and of every
\* descendant, and the steps of update leave the tree as it is.
C20_UpdateFrame ==
    /\ UpdateKeepsTree
    /\ []((quiet /\ top.op = "update" /\ top.sub # {}) =>
            /\ top.rp = "No" => repainted = {}
            /\ (UpdateOver /\ top.pg = "No") =>
                   /\ log = <<<<"update", top.id>>>>
                   /\ top.rp = "Yes" => repainted = {top.id}
            /\ (UpdateOver /\ top.pg = "Yes" /\ top.rp = "Yes") =>
                   repainted = top.sub)

\* C21: a listener is removed from a signal only when its owner is removed:
\* whenever no operation is in progress, every listener named in the
\* teardown record of a live node is still registered, under its handle and
\* for that node, on the signal the record names.
C21_LiveListenersStayRegistered ==
    Idle =>
        \A n \in DOMAIN map : \A k \in DOMAIN map[n].listeners :
            LET pair == map[n].listeners[k]
            IN  /\ signal_map[pair.signal].some
                /\ pair.listener \in DOMAIN signal_map[pair.signal].listeners
                /\ signal_map[pair.signal].listeners[pair.listener] = n

\* The signal has an emission in progress on the call stack.
MidEmission(sref) ==
    \E i \in DOMAIN stack : stack[i].op = "emit" /\ stack[i].id = sref

\* The step is a call of emit(sref) made by user code.
EmitCalled(sref) ==
    /\ stack # <<>>
    /\ fuel' = fuel - 1
    /\ top'.inner = <<"emit", sref>>

\* Every emission on the stack keeps the signal it holds and its iteration,
\* which only moves forward by one listener at a time, and it ends only when
\* every listener has been invoked.
EmissionsContinue ==
    /\ \A i \in DOMAIN stack \cap DOMAIN stack' :
         stack[i].op = "emit" =>
            /\ stack'[i].op = "emit" /\ stack'[i].id = stack[i].id
            /\ stack'[i].held = stack[i].held
            /\ stack'[i].kids = stack[i].kids
            /\ stack'[i].next \in {stack[i].next, stack[i].next + 1}
    /\ (stack # <<>> /\ Top.op = "emit" /\ Len(stack') < Len(stack)) =>
          LoopDone(Top)

\* C22: an emit called on a signal that has an emission in progress on the
\* call stack changes nothing in the arena, pushes no activation (so it
\* invokes no listener) and does not fail; every emission in progress keeps
\* its held signal and goes on through its listeners to the last one.
C22_NestedEmitIsNoOp ==
    [][/\ \A sref \in SignalIds :
            (MidEmission(sref) /\ EmitCalled(sref)) =>
                /\ gvars' = gvars
                /\ stack' = stack
                /\ panicked' = ""
       /\ EmissionsContinue]_vars

\* The second listener of an emission is running after the only call made by
\* user code so far in that emission, an emit of the same signal.
C22_Witness ==
    /\ panicked = ""
    /\ top.op = "emit" /\ top.inner = <<"emit", top.id>>
    /\ fuel = MaxFuel - 1
    /\ Len(stack) = 2
    /\ stack[1].op = "emit" /\ stack[1].id = top.id
    /\ Len(stack[1].kids) = 2 /\ stack[1].next = 3
    /\ stack[2].op = "user" /\ stack[2].role = "listener"
    /\ stack[2].lid = stack[1].kids[2]

\* The activations that take a payload, run a hook and replace the payload.
HookOps == {"update", "unmount", "reverse_unmount", "late_impl"}

\* The step is an attempt to remove a node whose payload is held by a hook on
\* the stack: the take of unmount_single or of late_unmount_impl on that node.
RemovalAttempt ==
    /\ stack # <<>> /\ panicked = ""
    /\ Top.op \in {"unmount", "reverse_unmount", "late_impl"}
    /\ Top.pc = "take"
    /\ Holders(Top.id) # {}

\* The step is the normal return of an unmount, reverse_unmount or
\* late_unmount that the update or unmount hook of a node called on the node
\* itself or on its parent.
RemovalAttemptReturns ==
    /\ Len(stack) >= 2 /\ Len(stack') = Len(stack) - 1 /\ panicked' = ""
    /\ Top.op \in {"unmount", "reverse_unmount", "late_unmount"}
    /\ LET h == stack[Len(stack) - 1]
       IN  /\ h.op = "user" /\ h.role \in {"update", "unmount"}
           /\ \/ Top.id = h.id
              \/ h.id \in DOMAIN map /\ Top.id = map[h.id].parent

\* C23: every attempt to remove a node from inside its own update or unmount
\* hook, by unmount, reverse_unmount or late_unmount of the node or of an
\* ancestor, fails: no such call returns normally to the hook.
C23_RemovalAttemptsFail == [][~RemovalAttemptReturns]_vars

\* The part of C23 that holds: a node whose update or unmount hook is on the
\* call stack is in the arena with its payload absent, and no step erases it;
\* unmount_single and late_unmount_impl reaching such a node panic at their
\* take, so that an operation back from a hook at its replace step finds the
\* node, still without payload.
TakenNodeNotRemoved ==
    /\ [](\A id \in NodeIds :
            Holders(id) # {} => id \in DOMAIN map /\ ~map[id].component)
    /\ []((stack # <<>> /\ Top.op \in HookOps /\ Top.pc = "replace") =>
            Top.id \in DOMAIN map /\ ~map[Top.id].component)
    /\ [][/\ \A id \in DOMAIN map :
               (Holders(id) # {}) => (id \in DOMAIN map')
          /\ RemovalAttempt => (panicked' # "" /\ map' = map)]_vars

\* A reverse_unmount of an ancestor, called inside the hook of a node, came
\* to that node and failed at its take; the node is still in the arena.
TakenNodeRemovalFailed ==
    /\ panicked = "called Option::unwrap on a None value"
    /\ Top.op = "reverse_unmount" /\ Top.pc = "take"
    /\ Top.id \in DOMAIN map
    /\ \E h \in Holders(Top.id) : \E i \in h + 1 .. Len(stack) - 1 :
         /\ stack[i].op = "reverse_unmount"
         /\ stack[i].id # Top.id
         /\ \A j \in h + 1 .. i - 1 : stack[j].op # "user"

\* C24: whenever no operation is in progress, every live node has its payload
\* present, so that is_valid and is_available agree on every identifier,
\* every signal created so far is present in signal_map, and the queue of
\* deferred listener removals is empty.
C24_QuiescentWhenIdle ==
    Idle =>
        /\ \A n \in DOMAIN map : ~is_taken(map[n])
        /\ \A id \in NodeIds : is_valid(map, id) = is_available(map, id)
        /\ \A sref \in SignalIds :
              IsSignalRef(sref) =>
                  sref \in DOMAIN signal_map /\ signal_map[sref].some
        /\ listener_removal = <<>>

\* An emit has returned after one of its listeners unmounted the only node
\* ever removed, the owner of the one listener ever registered on the signal:
\* payloads and the signal were taken and the removal went through the queue.
C24_Witness ==
    /\ Idle
    /\ top.op = "emit"
    /\ Len(top.inner) = 2 /\ top.inner[1] = "unmount"
    /\ DOMAIN map = (0 .. next_component_id - 1) \ {top.inner[2]}
    /\ DOMAIN map # {}
    /\ signal_map[top.id].next_id = 1
    /\ signal_map[top.id].listeners = EmptyFn

\* The number of places of a child list that hold id.
Occurrences(children, id) ==
    Cardinality({i \in DOMAIN children : children[i] = id})

\* C25: in every reachable state the root, while live, is its own parent;
\* every other live node occurs exactly once in the child list of the node
\* its parent field names, as long as that node is live, and in the child
\* list of no other live node; no live node occurs in its own child list.
C25_ParentChildConsistent ==
    \A n \in DOMAIN map :
        /\ n = 0 => map[n].parent = 0
        /\ Occurrences(map[n].children, n) = 0
        /\ n # 0 =>
              /\ map[n].parent # n
              /\ \A m \in DOMAIN map :
                    Occurrences(map[m].children, n) =
                        IF m = map[n].parent THEN 1 ELSE 0

\* A live node whose parent has been removed, itself the live parent of a
\* live child.
C25_Witness ==
    \E n, c \in DOMAIN map :
        /\ n # 0 /\ map[n].parent \notin DOMAIN map
        /\ c # 0 /\ map[c].parent = n
        /\ panicked = ""

====
